---- MODULE Spec2Model ----
(***************************************************************************)
(* The Socket.IO relay of Server.js (lines 146-186): the presence map      *)
(* onlineUsers, the connection and disconnect handlers, the sendmessage    *)
(* handler with its awaited Message.save(), and the five call-signaling    *)
(* handlers.                                                               *)
(*                                                                         *)
(* Node runs every handler to completion on one event loop, so each        *)
(* handler is one atomic action, except sendmessage, which is suspended at *)
(* its await: SendMessage is the part before the await, SaveOk / SaveFail  *)
(* is the store settling the save, and Resume is the part after the await. *)
(***************************************************************************)
EXTENDS Integers, Sequences, FiniteSets, TLC

\* ---- bounds of the model ----
MaxSockets == 2      \* connections accepted in one run
MaxInbound == 2      \* sendmessage and signaling events received in one run

\* ---- values ----
\* Identities written into the sender / from field of an event (the relay
\* copies the field and never compares it with the emitting connection).
Senders == {"u1"}
\* The JavaScript value undefined (an absent handshake query field, an absent
\* receiver or to field).
undefined == "<undefined>"
\* Identities a client may present or name as a target.  The relay treats all
\* identities alike; two of them tell a target from a bystander, and one of
\* the two is the absent identity.
Values == {"u1", undefined}
Texts == {"hi"}
\* Inbound signaling bodies: every body carries all three payload fields, the
\* handler's destructuring picks the one it forwards.
Bodies == { [offer |-> "O", answer |-> "A", candidate |-> "C"] }

\* onlineUsers[k]: property access on a plain object converts the key to a
\* string, so undefined becomes the property name "undefined".
PropKey(v) == IF v = undefined THEN "undefined" ELSE v
Keys == { PropKey(v) : v \in Values }

\* A missing property reads as undefined, which is falsy; socket ids are
\* non-empty strings, modelled as 1..MaxSockets, with 0 for "no entry".
NoSocket == 0

SignalEvents == {"call-user", "answer-call", "ice-candidate", "reject-call", "end-call"}

\* Mutant: the reject-call and end-call handlers emit each other's event.
OutNameSwapped(ev) ==
    CASE ev = "call-user"     -> "incoming-call"
      [] ev = "answer-call"   -> "call-answered"
      [] ev = "ice-candidate" -> "ice-candidate"
      [] ev = "reject-call"   -> "call-ended"
      [] ev = "end-call"      -> "call-rejected"

\* The outbound event name each signaling handler emits.
OutName(ev) ==
    CASE ev = "call-user"     -> "incoming-call"
      [] ev = "answer-call"   -> "call-answered"
      [] ev = "ice-candidate" -> "ice-candidate"
      [] ev = "reject-call"   -> "call-rejected"
      [] ev = "end-call"      -> "call-ended"

\* The payload field each signaling handler destructures and forwards.
PayloadFields(ev) ==
    CASE ev = "call-user"     -> {"offer"}
      [] ev = "answer-call"   -> {"answer"}
      [] ev = "ice-candidate" -> {"candidate"}
      [] ev = "reject-call"   -> {}
      [] ev = "end-call"      -> {}

\* The object literal { from, <payload> } built by a signaling handler.
SignalData(ev, from, body) ==
    [f \in {"from"} \cup PayloadFields(ev) |-> IF f = "from" THEN from ELSE body[f]]

\* The object literal { sender, text } built by the sendmessage handler.
MessageData(sender, text) == [sender |-> sender, text |-> text]

VARIABLES
    running,      \* the Node process is alive
    userIds,      \* userIds[s]: the userId captured by the closure of socket s
    open,         \* the sockets whose disconnect has not been processed
    onlineUsers,  \* the presence map: property name -> socket id (0: absent)
    msgs,         \* msgs[m]: the m-th sendmessage event and its handler's position
    saveCalls,    \* the ids of the messages Message.save() was called for, in call order
    store,        \* the documents the store has written, in write order
    out,          \* the events emitted by io.to(id).emit(...), in emit order
    nsignals,     \* the number of signaling events received
    lastSignal    \* the signaling event received last

vars == <<running, userIds, open, onlineUsers, msgs, saveCalls, store, out,
          nsignals, lastSignal>>

Sockets == 1..Len(userIds)

\* Before the first signaling event.
NoSignal == [ev |-> "", from |-> "", to |-> "", body |-> [offer |-> "", answer |-> "", candidate |-> ""]]

\* const targetSocket = onlineUsers[k]
Lookup(reg, k) == reg[PropKey(k)]

\* Mutant: an identity that is already registered keeps its first handle.
RegisterFirstWins(reg, userId, id) ==
    IF reg[PropKey(userId)] # NoSocket THEN reg ELSE [reg EXCEPT ![PropKey(userId)] = id]

\* onlineUsers[userId] = socket.id
Register(reg, userId, id) == [reg EXCEPT ![PropKey(userId)] = id]

\* Mutant: the disconnect handler forgets to delete the entry.
UnregisterNothing(reg, userId, id) == reg

\* Mutant: the entry is deleted only when it names another socket.
UnregisterIfStale(reg, userId, id) ==
    IF reg[PropKey(userId)] # id THEN [reg EXCEPT ![PropKey(userId)] = NoSocket] ELSE reg

\* delete onlineUsers[userId]: the entry goes, whichever socket it names.
Unregister(reg, userId, id) == [reg EXCEPT ![PropKey(userId)] = NoSocket]

\* io.to(targetSocket).emit(name, data).  mid and sig tie the emitted event to
\* the sendmessage or signaling event whose handler emitted it (0: none).
Emit(o, id, name, data, mid, sig) ==
    Append(o, [to |-> id, name |-> name, data |-> data, mid |-> mid, sig |-> sig])

\* Mutant: a receiver that is not registered gets the message broadcast.
ForwardOrBroadcast(o, reg, m) ==
    LET targetSocket == Lookup(reg, msgs[m].receiver) IN
    Emit(o, targetSocket, "receivemessage", MessageData(msgs[m].sender, msgs[m].text), m, 0)

\* Mutant: the receiver is looked up before the await and the handle kept.
ForwardToSeen(o, reg, m) ==
    LET targetSocket == msgs[m].seen IN
    IF targetSocket # NoSocket
       THEN Emit(o, targetSocket, "receivemessage",
                 MessageData(msgs[m].sender, msgs[m].text), m, 0)
       ELSE o

\* The sendmessage handler after the await: look the receiver up and forward.
Forward(o, reg, m) ==
    LET targetSocket == Lookup(reg, msgs[m].receiver) IN
    IF targetSocket # NoSocket
       THEN Emit(o, targetSocket, "receivemessage",
                 MessageData(msgs[m].sender, msgs[m].text), m, 0)
       ELSE o

\* Mutant: the handler emits the event once to the room and once to the socket.
RouteTwice(o, reg, ev, from, to, body, g) ==
    LET targetSocket == Lookup(reg, to) IN
    IF targetSocket # NoSocket
       THEN Emit(Emit(o, targetSocket, OutName(ev), SignalData(ev, from, body), 0, g),
                 targetSocket, OutName(ev), SignalData(ev, from, body), 0, g)
       ELSE o

\* The body shared by the five signaling handlers; g numbers the event.
Route(o, reg, ev, from, to, body, g) ==
    LET targetSocket == Lookup(reg, to) IN
    IF targetSocket # NoSocket
       THEN Emit(o, targetSocket, OutName(ev), SignalData(ev, from, body), 0, g)
       ELSE o

Init ==
    /\ running = TRUE
    /\ userIds = <<>>
    /\ open = {}
    /\ onlineUsers = [k \in Keys |-> NoSocket]
    /\ msgs = <<>>
    /\ saveCalls = <<>>
    /\ store = <<>>
    /\ out = <<>>
    /\ nsignals = 0
    /\ lastSignal = NoSignal

\* Mutant: a connecting user is sent the stored messages that were addressed
\* to it and never forwarded (an offline queue).
ConnectFlush(userId) ==
    /\ running
    /\ Len(userIds) < MaxSockets
    /\ LET id == Len(userIds) + 1
           missed == { m \in 1..Len(msgs) :
                         /\ msgs[m].pc = "done"
                         /\ PropKey(msgs[m].receiver) = PropKey(userId)
                         /\ \A i \in DOMAIN out : out[i].mid # m }
       IN
        /\ userIds' = Append(userIds, userId)
        /\ open' = open \cup {id}
        /\ onlineUsers' = Register(onlineUsers, userId, id)
        /\ out' = IF missed = {} THEN out
                  ELSE LET m == CHOOSE x \in missed : \A y \in missed : x <= y IN
                       Emit(out, id, "receivemessage",
                            MessageData(msgs[m].sender, msgs[m].text), m, 0)
    /\ UNCHANGED <<running, msgs, saveCalls, store, nsignals, lastSignal>>

\* io.on("connection"): a new socket with a fresh id connects presenting
\* userId; the entry for userId is written, its handlers are installed.
Connect(userId) ==
    /\ running
    /\ Len(userIds) < MaxSockets
    /\ LET id == Len(userIds) + 1 IN
        /\ userIds' = Append(userIds, userId)
        /\ open' = open \cup {id}
        /\ onlineUsers' = Register(onlineUsers, userId, id)
    /\ UNCHANGED <<running, msgs, saveCalls, store, out, nsignals, lastSignal>>

\* Mutant: a disconnect is not handled while a save is in flight.
DisconnectAfterSaves(s) ==
    /\ running
    /\ s \in open
    /\ \A m \in 1..Len(msgs) : msgs[m].pc # "saving"
    /\ open' = open \ {s}
    /\ onlineUsers' = Unregister(onlineUsers, userIds[s], s)
    /\ UNCHANGED <<running, userIds, msgs, saveCalls, store, out, nsignals, lastSignal>>

\* socket.on("disconnect", () => delete onlineUsers[userId])
Disconnect(s) ==
    /\ running
    /\ s \in open
    /\ open' = open \ {s}
    /\ onlineUsers' = Unregister(onlineUsers, userIds[s], s)
    /\ UNCHANGED <<running, userIds, msgs, saveCalls, store, out, nsignals, lastSignal>>

\* Mutant: the handler forwards first and saves afterwards.
SendMessageForwardFirst(s, sender, receiver, text) ==
    /\ running
    /\ s \in open
    /\ Len(msgs) + nsignals < MaxInbound
    /\ LET mid == Len(msgs) + 1
           targetSocket == Lookup(onlineUsers, receiver) IN
        /\ msgs' = Append(msgs, [sender |-> sender, receiver |-> receiver,
                                 text |-> text, pc |-> "saving",
                                 online |-> targetSocket # NoSocket,
                                 seen |-> targetSocket])
        /\ saveCalls' = Append(saveCalls, mid)
        /\ out' = IF targetSocket # NoSocket
                     THEN Emit(out, targetSocket, "receivemessage",
                               MessageData(sender, text), mid, 0)
                     ELSE out
    /\ UNCHANGED <<running, userIds, open, onlineUsers, store, nsignals, lastSignal>>

\* socket.on("sendmessage"), up to the await: the document is built and
\* save() is called; the handler is suspended until the save settles.
\* online records whether the receiver was registered at that moment, seen
\* the handle it was registered with; the handler reads neither.
SendMessage(s, sender, receiver, text) ==
    /\ running
    /\ s \in open
    /\ Len(msgs) + nsignals < MaxInbound
    /\ LET mid == Len(msgs) + 1 IN
        /\ msgs' = Append(msgs, [sender |-> sender, receiver |-> receiver,
                                 text |-> text, pc |-> "saving",
                                 online |-> Lookup(onlineUsers, receiver) # NoSocket,
                                 seen |-> Lookup(onlineUsers, receiver)])
        /\ saveCalls' = Append(saveCalls, mid)
    /\ UNCHANGED <<running, userIds, open, onlineUsers, store, out, nsignals, lastSignal>>

\* The store writes the document; its reply is on the way to the relay.  The
\* saves in flight are independent operations of the store and settle in
\* any order.
SaveOk(m) ==
    /\ running
    /\ m \in 1..Len(msgs)
    /\ msgs[m].pc = "saving"
    /\ store' = Append(store, [mid |-> m, sender |-> msgs[m].sender,
                               receiver |-> msgs[m].receiver, text |-> msgs[m].text])
    /\ msgs' = [msgs EXCEPT ![m].pc = "saved"]
    /\ UNCHANGED <<running, userIds, open, onlineUsers, saveCalls, out, nsignals, lastSignal>>

\* Mutant: the rejection is swallowed and the message forwarded all the same.
SaveFailForward(m) ==
    /\ running
    /\ m \in 1..Len(msgs)
    /\ msgs[m].pc = "saving"
    /\ msgs' = [msgs EXCEPT ![m].pc = "rejected"]
    /\ out' = Forward(out, onlineUsers, m)
    /\ UNCHANGED <<running, userIds, open, onlineUsers, saveCalls, store, nsignals, lastSignal>>

\* The store cannot be reached and the save() promise is rejected: the await
\* throws, the async handler's promise is rejected and nobody handles it.
\* Node then either only warns (before v15) or terminates the process
\* (v15 and later, the default --unhandled-rejections=throw).
SaveFail(m) ==
    /\ running
    /\ m \in 1..Len(msgs)
    /\ msgs[m].pc = "saving"
    /\ msgs' = [msgs EXCEPT ![m].pc = "rejected"]
    /\ running' \in BOOLEAN
    /\ UNCHANGED <<userIds, open, onlineUsers, saveCalls, store, out, nsignals, lastSignal>>

\* The reply of the store arrives, the save() promise is fulfilled and the
\* sendmessage handler runs from the await on.
Resume(m) ==
    /\ running
    /\ m \in 1..Len(msgs)
    /\ msgs[m].pc = "saved"
    /\ out' = Forward(out, onlineUsers, m)
    /\ msgs' = [msgs EXCEPT ![m].pc = "done"]
    /\ UNCHANGED <<running, userIds, open, onlineUsers, saveCalls, store, nsignals, lastSignal>>

\* Mutant: the handler stamps the event with the identity of its own socket.
SignalStampsSender(s, ev, from, to, body) ==
    /\ running
    /\ s \in open
    /\ Len(msgs) + nsignals < MaxInbound
    /\ out' = Route(out, onlineUsers, ev, userIds[s], to, body, nsignals + 1)
    /\ nsignals' = nsignals + 1
    /\ lastSignal' = [ev |-> ev, from |-> from, to |-> to, body |-> body]
    /\ UNCHANGED <<running, userIds, open, onlineUsers, msgs, saveCalls, store>>

\* Mutant: the call-user handler keeps a record of the call in the store.
SignalPersists(s, ev, from, to, body) ==
    /\ running
    /\ s \in open
    /\ Len(msgs) + nsignals < MaxInbound
    /\ out' = Route(out, onlineUsers, ev, from, to, body, nsignals + 1)
    /\ nsignals' = nsignals + 1
    /\ lastSignal' = [ev |-> ev, from |-> from, to |-> to, body |-> body]
    /\ store' = IF ev = "call-user"
                   THEN Append(store, [mid |-> 0, sender |-> from, receiver |-> to,
                                       text |-> body.offer])
                   ELSE store
    /\ UNCHANGED <<running, userIds, open, onlineUsers, msgs, saveCalls>>

\* Mutant: the end-call handler also removes the entry of the peer it notified.
SignalEndCallEvicts(s, ev, from, to, body) ==
    /\ running
    /\ s \in open
    /\ Len(msgs) + nsignals < MaxInbound
    /\ out' = Route(out, onlineUsers, ev, from, to, body, nsignals + 1)
    /\ nsignals' = nsignals + 1
    /\ lastSignal' = [ev |-> ev, from |-> from, to |-> to, body |-> body]
    /\ onlineUsers' = IF ev = "end-call" THEN Unregister(onlineUsers, to, NoSocket)
                                         ELSE onlineUsers
    /\ UNCHANGED <<running, userIds, open, msgs, saveCalls, store>>

\* socket.on("call-user" | "answer-call" | "ice-candidate" | "reject-call" | "end-call")
Signal(s, ev, from, to, body) ==
    /\ running
    /\ s \in open
    /\ Len(msgs) + nsignals < MaxInbound
    /\ out' = Route(out, onlineUsers, ev, from, to, body, nsignals + 1)
    /\ nsignals' = nsignals + 1
    /\ lastSignal' = [ev |-> ev, from |-> from, to |-> to, body |-> body]
    /\ UNCHANGED <<running, userIds, open, onlineUsers, msgs, saveCalls, store>>

Next ==
    \/ \E userId \in Values : Connect(userId)
    \/ \E s \in Sockets : Disconnect(s)
    \/ \E s \in Sockets, sender \in Senders, receiver \in Values, text \in Texts :
          SendMessage(s, sender, receiver, text)
    \/ \E m \in 1..Len(msgs) : SaveOk(m)
    \/ \E m \in 1..Len(msgs) : SaveFail(m)
    \/ \E m \in 1..Len(msgs) : Resume(m)
    \/ \E s \in Sockets, ev \in SignalEvents, from \in Senders, to \in Values, body \in Bodies :
          Signal(s, ev, from, to, body)

Spec == Init /\ [][Next]_vars

(***************************************************************************)
(* Vocabulary of the properties.                                           *)
(***************************************************************************)
Msgs == 1..Len(msgs)
KeyOf(s) == PropKey(userIds[s])
\* The positions of the store / of out that belong to message m.
StoredAt(st, m)  == { i \in DOMAIN st : st[i].mid = m }
EmittedAt(o, m)  == { i \in DOMAIN o : o[i].mid = m }
\* The positions of out that belong to signaling event g.
SignalledAt(o, g) == { i \in DOMAIN o : o[i].sig = g }
\* Socket s is closed in this step.
Closing(s)  == s \in open /\ s \notin open'
\* The handler of message m resumes after its save in this step.
Resuming(m) == m \in Msgs /\ msgs[m].pc = "saved" /\ msgs'[m].pc = "done"
\* The save of message m is rejected in this step.
Failing(m)  == m \in Msgs /\ msgs[m].pc = "saving" /\ msgs'[m].pc = "rejected"
\* A signaling event is handled in this step.
Signalling  == nsignals' = nsignals + 1

\* C1 (as claimed): the disconnect of a connection removes the entry of its
\* identity only if the stored handle is its own; the disconnect of an older
\* connection leaves the entry of the newer connection in place.
C1_StaleDisconnectGuard ==
    [][\A s \in Sockets :
          (Closing(s) /\ onlineUsers[KeyOf(s)] # s) => onlineUsers' = onlineUsers]_vars

\* C2: the registry is last-writer-wins: a connection step maps the identity
\* to the new handle whatever it mapped before, no entry ever names an older
\* connection of an identity than the newest one that connected under it, and
\* every identity has one handle or none.
C2_LastWriterWins ==
    /\ onlineUsers \in [Keys -> {NoSocket} \cup Sockets]
    /\ \A k \in Keys :
          LET S == { s \in Sockets : KeyOf(s) = k } IN
          /\ onlineUsers[k] # NoSocket =>
                onlineUsers[k] \in S /\ \A s \in S : s <= onlineUsers[k]
          /\ (S # {} /\ S \subseteq open) =>
                onlineUsers[k] \in S /\ \A s \in S : s <= onlineUsers[k]

\* C2 witness: two open connections of one identity, the entry names the second.
C2_Witness ==
    \E h1, h2 \in Sockets :
        /\ h1 < h2 /\ KeyOf(h1) = KeyOf(h2) /\ {h1, h2} \subseteq open
        /\ onlineUsers[KeyOf(h1)] = h2

\* C3: save() is called exactly once for every sendmessage event, whether or
\* not its receiver is registered; the store holds the document once as soon
\* as the save is fulfilled, never twice; and a receivemessage of the event is
\* emitted only when its document is in the store.
C3_SaveOnceBeforeForward ==
    \A m \in Msgs :
        /\ Cardinality({ i \in DOMAIN saveCalls : saveCalls[i] = m }) = 1
        /\ Cardinality(StoredAt(store, m)) = (IF msgs[m].pc \in {"saved", "done"} THEN 1 ELSE 0)
        /\ \A i \in StoredAt(store, m) :
              /\ store[i].sender = msgs[m].sender
              /\ store[i].receiver = msgs[m].receiver
              /\ store[i].text = msgs[m].text
        /\ EmittedAt(out, m) # {} => StoredAt(store, m) # {}
        /\ msgs[m].pc = "done" => Cardinality(StoredAt(store, m)) = 1

\* C3 witness: one message was stored and forwarded, another was stored
\* although its receiver was registered neither when sent nor when looked up.
C3_Witness ==
    \E m1, m2 \in Msgs :
        /\ msgs[m1].pc = "done" /\ EmittedAt(out, m1) # {} /\ StoredAt(store, m1) # {}
        /\ msgs[m2].pc = "done" /\ ~msgs[m2].online /\ EmittedAt(out, m2) = {}
        /\ StoredAt(store, m2) # {}

\* C4 (as claimed): of two messages of one sender, the one received first is
\* stored first, and forwarded first when both go to the same receiver.
C4_PerSenderOrder ==
    \A m1, m2 \in Msgs :
        (m1 < m2 /\ msgs[m1].sender = msgs[m2].sender) =>
            /\ \A i \in StoredAt(store, m1), j \in StoredAt(store, m2) : i < j
            /\ msgs[m1].receiver = msgs[m2].receiver =>
                  \A i \in EmittedAt(out, m1), j \in EmittedAt(out, m2) : i < j

\* The table of section 4.4 / 6: what each signaling event is forwarded as.
C5_Expected(e) ==
    CASE e.ev = "call-user" ->
            [name |-> "incoming-call", data |-> [from |-> e.from, offer |-> e.body.offer]]
      [] e.ev = "answer-call" ->
            [name |-> "call-answered", data |-> [from |-> e.from, answer |-> e.body.answer]]
      [] e.ev = "ice-candidate" ->
            [name |-> "ice-candidate", data |-> [from |-> e.from, candidate |-> e.body.candidate]]
      [] e.ev = "reject-call" ->
            [name |-> "call-rejected", data |-> [from |-> e.from]]
      [] e.ev = "end-call" ->
            [name |-> "call-ended", data |-> [from |-> e.from]]

\* C5: handling a signaling event whose target is registered emits exactly one
\* event, of the mapped name, carrying from and the event's payload field,
\* addressed to the handle registered for the target; handling one whose
\* target is not registered emits nothing.
C5_SignalRouting ==
    [][Signalling =>
         LET e == lastSignal'
             h == onlineUsers[PropKey(e.to)] IN
         IF h # NoSocket
            THEN /\ Len(out') = Len(out) + 1
                 /\ SubSeq(out', 1, Len(out)) = out
                 /\ out'[Len(out')].to = h
                 /\ out'[Len(out')].name = C5_Expected(e).name
                 /\ out'[Len(out')].data = C5_Expected(e).data
            ELSE out' = out]_vars

\* C5 witness: a signaling event was forwarded to a registered target while
\* another connection was open, and another signaling event was dropped.
C5_Witness ==
    /\ nsignals >= 2
    /\ \E g \in 1..nsignals : SignalledAt(out, g) = {}
    /\ \E i \in DOMAIN out : out[i].sig > 0 /\ \E s \in open : s # out[i].to

\* C6: when the save of a message is rejected, that step emits nothing and
\* leaves the registry as it is, and no receivemessage of that message is in
\* what the relay has emitted, then or later.
C6_FailedSaveNotForwarded ==
    /\ [](\A m \in Msgs : msgs[m].pc = "rejected" => EmittedAt(out, m) = {})
    /\ [][\A m \in Msgs : Failing(m) => out' = out /\ onlineUsers' = onlineUsers]_vars

\* C6 witness: the save of a message failed while its receiver was registered.
C6_Witness ==
    \E m \in Msgs :
        /\ msgs[m].pc = "rejected"
        /\ Lookup(onlineUsers, msgs[m].receiver) # NoSocket
        /\ msgs[m].online

\* C7 (as claimed): no reachable state in which a store failure has stopped
\* the relay.
C7_StoreFailureNeverFatal ==
    \A m \in Msgs : msgs[m].pc = "rejected" => running

\* C8: when the lookup made by the resumed sendmessage handler finds no entry
\* for the receiver, the step emits nothing to any connection, the relay keeps
\* running and the message is in the store.
C8_LookupMissIsSilent ==
    [][\A m \in Msgs :
          (Resuming(m) /\ Lookup(onlineUsers, msgs[m].receiver) = NoSocket) =>
              /\ out' = out
              /\ running'
              /\ Cardinality(StoredAt(store', m)) = 1]_vars

\* C8 witness: a handler finished without forwarding; its message is stored.
C8_Witness ==
    \E m \in Msgs :
        /\ msgs[m].pc = "done" /\ EmittedAt(out, m) = {} /\ StoredAt(store, m) # {}
        /\ open # {}

\* C9 (as claimed): a message whose receiver had no registered connection when
\* the event reached the relay is never forwarded, and is stored once handled.
C9_NoForwardIfOfflineWhenSent ==
    \A m \in Msgs :
        ~msgs[m].online =>
            /\ EmittedAt(out, m) = {}
            /\ msgs[m].pc = "done" => StoredAt(store, m) # {}

\* C9 (amended): a message whose receiver has no registered connection when
\* the handler looks it up, after the store write, is stored and not
\* forwarded in that step, and nothing is forwarded for a message whose
\* handler has finished, also when the receiver connects later.
C9_NoOfflineQueue ==
    [][\A m \in Msgs :
          /\ (Resuming(m) /\ Lookup(onlineUsers, msgs[m].receiver) = NoSocket) =>
                EmittedAt(out', m) = {} /\ StoredAt(store', m) # {}
          /\ msgs[m].pc = "done" =>
                /\ EmittedAt(out', m) = EmittedAt(out, m)
                /\ StoredAt(store', m) = StoredAt(store, m)
                /\ StoredAt(store, m) # {}]_vars

\* C9 witness: the receiver of a stored, unforwarded message has connected
\* after the handler finished.
C9_Witness ==
    \E m \in Msgs :
        /\ msgs[m].pc = "done" /\ EmittedAt(out, m) = {} /\ StoredAt(store, m) # {}
        /\ Lookup(onlineUsers, msgs[m].receiver) # NoSocket

\* The identity the event e, emitted in the step that leaves the messages ms
\* and the last signaling event sg, was addressed to by its inbound event.
TargetKey(e, ms, sg) == PropKey(IF e.mid > 0 THEN ms[e.mid].receiver ELSE sg.to)

\* C10: the disconnect of the connection registered for an identity leaves the
\* identity without entry, and while an identity has no entry no step emits
\* an event for a message or signaling event addressed to it.
C10_UnregisteredGetsNothing ==
    [][/\ \A s \in Sockets :
             (Closing(s) /\ onlineUsers[KeyOf(s)] = s) => onlineUsers'[KeyOf(s)] = NoSocket
       /\ \A k \in Keys :
             onlineUsers[k] = NoSocket =>
                \A i \in (Len(out) + 1)..Len(out') : TargetKey(out'[i], msgs', lastSignal') # k]_vars

\* C10 witness: a connection has closed, its identity has no entry, and a
\* message sent to the identity while it was registered and a signaling event
\* addressed to it were both dropped.
C10_Witness ==
    \E s \in Sockets \ open :
        /\ onlineUsers[KeyOf(s)] = NoSocket
        /\ \E m \in Msgs :
              /\ PropKey(msgs[m].receiver) = KeyOf(s)
              /\ msgs[m].online /\ msgs[m].pc = "done" /\ EmittedAt(out, m) = {}
        /\ nsignals > 0 /\ PropKey(lastSignal.to) = KeyOf(s)
        /\ SignalledAt(out, nsignals) = {}


\* C11 (as claimed): a connection established without an identity is accepted
\* but never registered: no entry of the registry names it and no event is
\* ever forwarded to it.
C11_AnonymousNeverRegistered ==
    \A s \in Sockets :
        userIds[s] = undefined =>
            /\ \A k \in Keys : onlineUsers[k] # s
            /\ \A i \in DOMAIN out : out[i].to # s

\* A connection is accepted in this step.
Connecting == Len(userIds') = Len(userIds) + 1

\* C12: only the connection and disconnect handlers change the registry: a
\* step that receives a sendmessage, settles its save, resumes its handler or
\* handles a signaling event, whether its target is found or not, leaves
\* onlineUsers as it is.
C12_OnlyLifecycleWritesRegistry ==
    [][/\ onlineUsers' # onlineUsers => Connecting \/ \E s \in Sockets : Closing(s)
       /\ (\/ Len(msgs') # Len(msgs)
           \/ \E m \in Msgs : msgs'[m].pc # msgs[m].pc
           \/ Signalling
           \/ out' # out
           \/ store' # store) => onlineUsers' = onlineUsers]_vars

\* C12 witness: with an entry in the registry, one message was forwarded and
\* a signaling event for an unregistered target was dropped.
C12_Witness ==
    /\ \E k \in Keys : onlineUsers[k] # NoSocket
    /\ \E m \in Msgs : msgs[m].pc = "done" /\ EmittedAt(out, m) # {}
    /\ nsignals = 1 /\ SignalledAt(out, 1) = {}


\* C13: signaling delivery is in order and at most once: the events emitted
\* for signaling events stand in out in the order their inbound events were
\* received, no inbound event has more than one, and the event emitted by a
\* signaling step is addressed to the handle registered for the target when
\* the step is taken.
C13_SignalInOrderAtMostOnce ==
    /\ [](/\ \A i, j \in DOMAIN out :
                (i < j /\ out[i].sig > 0 /\ out[j].sig > 0) => out[i].sig < out[j].sig
          /\ \A i \in DOMAIN out : out[i].sig <= nsignals
          /\ \A g \in 1..nsignals : Cardinality(SignalledAt(out, g)) <= 1)
    /\ [][Signalling =>
             /\ Len(out') <= Len(out) + 1
             /\ SubSeq(out', 1, Len(out)) = out
             /\ \A i \in (Len(out) + 1)..Len(out') :
                   /\ out'[i].sig = nsignals'
                   /\ out'[i].to = onlineUsers[PropKey(lastSignal'.to)]]_vars

\* C13 witness: two signaling events for one identity were forwarded in
\* order, the second to the connection that superseded the first's.
C13_Witness ==
    \E i, j \in DOMAIN out :
        /\ i < j /\ out[i].sig = 1 /\ out[j].sig = 2
        /\ out[i].to # out[j].to
        /\ KeyOf(out[i].to) = KeyOf(out[j].to)

\* C14: signaling events are never persisted: a step that handles one,
\* whether its target is registered or not, leaves the store and the calls
\* of save() as they are; the store changes only by the write of the document
\* of a sendmessage whose save is in flight, and holds nothing else.
C14_SignalsNotPersisted ==
    /\ [](\A i \in DOMAIN store : store[i].mid \in Msgs)
    /\ [][/\ Signalling => store' = store /\ saveCalls' = saveCalls
          /\ store' # store =>
                \E m \in Msgs :
                    /\ msgs[m].pc = "saving" /\ msgs'[m].pc = "saved"
                    /\ store' = Append(store, [mid |-> m, sender |-> msgs[m].sender,
                                               receiver |-> msgs[m].receiver,
                                               text |-> msgs[m].text])]_vars

\* C14 witness: a signaling event was forwarded, and the store holds the one
\* message that was sent.
C14_Witness ==
    /\ nsignals = 1 /\ SignalledAt(out, 1) # {}
    /\ Len(msgs) = 1 /\ Len(store) = 1


\* C15: persistence does not block the relay: while the save of a message is
\* in flight every connect, disconnect, signaling event and sendmessage the
\* bounds leave room for can be handled, and the steps that receive a message
\* and write its document neither forward anything nor touch the registry.
C15_SaveDoesNotBlock ==
    /\ []((running /\ \E m \in Msgs : msgs[m].pc = "saving") =>
            /\ Len(userIds) < MaxSockets => \A u \in Values : ENABLED Connect(u)
            /\ \A s \in open : ENABLED Disconnect(s)
            /\ Len(msgs) + nsignals < MaxInbound =>
                  \A s \in open, t \in Values :
                      /\ \A sender \in Senders, text \in Texts :
                            ENABLED SendMessage(s, sender, t, text)
                      /\ \A ev \in SignalEvents, from \in Senders, body \in Bodies :
                            ENABLED Signal(s, ev, from, t, body))
    /\ [][(\/ Len(msgs') # Len(msgs)
           \/ \E m \in Msgs : msgs[m].pc = "saving" /\ msgs'[m].pc = "saved")
          => out' = out /\ onlineUsers' = onlineUsers]_vars

\* C15 witness: while the save of a message is in flight, the entry of its
\* receiver has changed and a second inbound event has been handled.
C15_Witness ==
    \E m \in Msgs :
        /\ msgs[m].pc = "saving"
        /\ Lookup(onlineUsers, msgs[m].receiver) # msgs[m].seen
        /\ Len(msgs) + nsignals = 2

\* C16: the sendmessage handler looks the receiver up when it resumes, after
\* the document was written: it forwards { sender, text } as receivemessage
\* to the handle registered for the receiver at that moment, or nothing if
\* there is none, whatever handle was registered when the event arrived; only
\* a resumed handler has forwarded.
C16_LookupAfterSave ==
    /\ [](\A m \in Msgs : EmittedAt(out, m) # {} => msgs[m].pc = "done")
    /\ [][\A m \in Msgs :
            Resuming(m) =>
               /\ StoredAt(store, m) # {}
               /\ LET h == onlineUsers[PropKey(msgs[m].receiver)] IN
                  IF h # NoSocket
                     THEN out' = Append(out, [to |-> h, name |-> "receivemessage",
                                              data |-> [sender |-> msgs[m].sender,
                                                        text |-> msgs[m].text],
                                              mid |-> m, sig |-> 0])
                     ELSE out' = out]_vars

\* C16 witness: the receiver's connection was superseded while the write was
\* in flight, and the message went to the new connection.
C16_Witness ==
    \E m \in Msgs : \E i \in EmittedAt(out, m) :
        /\ msgs[m].seen # NoSocket
        /\ msgs[m].seen # out[i].to
        /\ KeyOf(msgs[m].seen) = KeyOf(out[i].to)


\* C17: the registry maps an identity only to a connection that is open: the
\* handle of a connection whose disconnect was processed is the stored value
\* of no identity, and no step emits an event addressed to a closed connection.
C17_RegistryNamesOpenSockets ==
    /\ [](\A k \in Keys : onlineUsers[k] # NoSocket => onlineUsers[k] \in open)
    /\ [][\A i \in (Len(out) + 1)..Len(out') : out'[i].to \in open]_vars

\* C17 witness: a connection of an identity has closed, a later connection of
\* the same identity is registered and an event was forwarded to it.
C17_Witness ==
    \E s \in Sockets \ open :
        /\ onlineUsers[KeyOf(s)] \in open
        /\ \E i \in DOMAIN out : out[i].to = onlineUsers[KeyOf(s)]

\* C18: routing does not depend on the connection that emitted the event: the
\* step that handles a sendmessage or a signaling event is the step every
\* other open connection would have caused with the same event, and the
\* sender / from field of an emitted event is the field of its inbound event.
C18_RoutingIgnoresEmitter ==
    /\ [](\A i \in DOMAIN out :
             out[i].mid > 0 =>
                /\ out[i].data.sender = msgs[out[i].mid].sender
                /\ out[i].data.text = msgs[out[i].mid].text)
    /\ [][/\ Signalling =>
               /\ \A s \in open :
                     Signal(s, lastSignal'.ev, lastSignal'.from, lastSignal'.to,
                            lastSignal'.body)
               /\ \A i \in (Len(out) + 1)..Len(out') :
                     out'[i].data.from = lastSignal'.from
          /\ Len(msgs') = Len(msgs) + 1 =>
               \A s \in open :
                   SendMessage(s, msgs'[Len(msgs')].sender, msgs'[Len(msgs')].receiver,
                               msgs'[Len(msgs')].text)]_vars

\* C18 witness: no connection ever presented the identity u1, two connections
\* are open, and a message and a signaling event that name u1 as their
\* sender were forwarded with that name.
C18_Witness ==
    /\ \A s \in Sockets : userIds[s] # "u1"
    /\ Cardinality(open) = 2
    /\ \E i \in DOMAIN out : out[i].sig > 0 /\ out[i].data.from = "u1"
    /\ \E i \in DOMAIN out : out[i].mid > 0 /\ out[i].data.sender = "u1"

====
